---- MODULE Spec2Model ----
(***************************************************************************)
(* Model of the bookmark store: the validation engine                      *)
(* (parser.ValidateAndUpdateBookmarks and parser.ValidateBookmark), the    *)
(* import (parser.SaveBookmarks), the document parser (parser.Parse) and   *)
(* the exporters (parser.ExportValidBookmarks and its siblings).           *)
(*                                                                         *)
(* The import, the parser and the exporters are sequential: each call is   *)
(* one step, under a specification of its own (SpecImport, SpecParse,      *)
(* SpecExport).                                                            *)
(*                                                                         *)
(* One validation run is modelled: the calling goroutine (begin, query,    *)
(* prepare, the range loop over the results channel, commit, report), the  *)
(* producer goroutine that iterates the rows, and one probe goroutine per  *)
(* launched row.  Goroutines interleave at their blocking operations       *)
(* (store and file system calls, the blocking receive from workQueue, the  *)
(* rendezvous on the unbuffered results channel, close); the code that     *)
(* follows such an operation without blocking belongs to its step.         *)
(***************************************************************************)
EXTENDS Integers, Sequences, FiniteSets, TLC

\* ------------------------------------------------------------------ bounds
\* Largest number of stored rows of a run under Spec.
MaxRows == 3
\* Largest number of redirects one GET follows.
MaxHops == 2
\* Number of stored rows of a run under SpecPool (one more than the ceiling).
PoolRows == 11
\* Largest number of records of one imported batch.
MaxBatch == 2
\* Largest number of rows the imports of SpecImport store.
MaxStore == 3

\* The child nodes of the document's root, and of a nested list within it.
MaxItems == 3
MaxNested == 2

\* The rows of a store that is exported.
MaxExportRows == 2

\* ------------------------------------------------------- program constants
\* workerCount := 10
workerCount == 10
\* if resp.StatusCode >= 400
DeadStatus == 400

\* ------------------------------------------------------------- environment
\* redirect_url of a row no validation run has updated yet (TEXT, no default).
NULL == "<NULL>"
\* error values: nil, or the message of the returned error.
nil == "nil"
\* Request URLs a redirect can lead to (absolute after resolution).
Targets == {[Scheme |-> "http", Host |-> "t1", Path |-> "/"],
            [Scheme |-> "https", Host |-> "t2", Path |-> "/x"]}
\* Status codes of a final response.
StatusCodes == {200, 400, 503}

RECURSIVE SeqsUpTo(_, _)
SeqsUpTo(S, n) ==
    IF n = 0 THEN {<<>>}
    ELSE LET shorter == SeqsUpTo(S, n - 1)
         IN  shorter \cup {Append(s, x) : s \in {t \in shorter : Len(t) = n - 1}, x \in S}

\* What the network does to one GET: the redirects followed, in order, and then
\* either a transport-level failure (err) or a final response with a status.
ProbeTraces ==
    {[hops |-> h, err |-> FALSE, status |-> c] : h \in SeqsUpTo(Targets, MaxHops), c \in StatusCodes}
    \cup {[hops |-> h, err |-> TRUE, status |-> 0] : h \in SeqsUpTo(Targets, MaxHops)}

\* A GET answered 200 at once.
DirectOK == [hops |-> <<>>, err |-> FALSE, status |-> 200]

\* One probe trace of each class of result: valid, dead, redirect, and a
\* redirect that ends dead.
ClassTraces ==
    {DirectOK,
     [hops |-> <<>>, err |-> TRUE, status |-> 0],
     [hops |-> <<[Scheme |-> "http", Host |-> "t1", Path |-> "/"]>>, err |-> FALSE, status |-> 200],
     [hops |-> <<[Scheme |-> "http", Host |-> "t1", Path |-> "/"]>>, err |-> FALSE, status |-> 400]}

\* ------------------------------------------------------------ ValidateBookmark
\* (*url.URL).String() of a resolved request URL.
URLString(u) == u.Scheme \o "://" \o u.Host \o u.Path

\* Mutant: the callback records the redirect but not its target.
CheckRedirectNoURL(bookmark, req, via) ==
    IF via >= 1 THEN [bookmark EXCEPT !.Redirect = TRUE] ELSE bookmark

\* The client's CheckRedirect callback; via is len(via).
CheckRedirect(bookmark, req, via) ==
    IF via >= 1
    THEN [bookmark EXCEPT !.Redirect = TRUE, !.RedirectURL = URLString(req)]
    ELSE bookmark

\* client.Get calls CheckRedirect before following the k-th redirect, with the
\* k requests made so far in via.
RECURSIVE FollowRedirects(_, _, _)
FollowRedirects(bookmark, hops, k) ==
    IF k > Len(hops) THEN bookmark
    ELSE FollowRedirects(CheckRedirect(bookmark, hops[k], k), hops, k + 1)

\* resp.Request.URL.String(): the URL of the last request made.
LastRequestURL(url, hops) ==
    IF hops = <<>> THEN url ELSE URLString(hops[Len(hops)])

\* Mutant: only statuses above 400 count as dead.
MarkDeadByStatusAbove(bookmark, status) ==
    IF status > DeadStatus THEN [bookmark EXCEPT !.Dead = TRUE] ELSE bookmark

\* if resp.StatusCode >= 400 { bookmark.Dead = true }
MarkDeadByStatus(bookmark, status) ==
    IF status >= DeadStatus THEN [bookmark EXCEPT !.Dead = TRUE] ELSE bookmark

\* ValidateBookmark: the bookmark after the probe, and the returned error.
ValidateBookmark(bookmark, trace) ==
    LET b1 == FollowRedirects(bookmark, trace.hops, 1)
    IN  IF trace.err
        THEN [bookmark |-> [b1 EXCEPT !.Dead = TRUE], err |-> nil]
        ELSE LET b2 == MarkDeadByStatus(b1, trace.status)
                 b3 == IF b2.Redirect /\ b2.RedirectURL = ""
                       THEN [b2 EXCEPT !.RedirectURL = LastRequestURL(bookmark.URL, trace.hops)]
                       ELSE b2
             IN  [bookmark |-> b3, err |-> nil]

\* &Bookmark{ID: bookmarkID, URL: bookmarkURL}
NewBookmark(id, url) ==
    [ID |-> id, URL |-> url, Dead |-> FALSE, Redirect |-> FALSE, RedirectURL |-> ""]

\* The validationResult a probe task sends.
TaskResult(id, url, trace) ==
    LET v == ValidateBookmark(NewBookmark(id, url), trace)
    IN  [id |-> id, dead |-> v.bookmark.Dead, redirect |-> v.bookmark.Redirect,
         redirectURL |-> v.bookmark.RedirectURL, err |-> v.err]

\* The validationResult{err: err} the producer sends when rows.Scan fails.
ScanErrResult ==
    [id |-> 0, dead |-> FALSE, redirect |-> FALSE, redirectURL |-> "", err |-> "scan error"]

\* ----------------------------------------------------------------- state
VARIABLES
    db,          \* the committed table: row id -> row (ids are 1..Len(db))
    db0,         \* the table as it was when the run started
    tx,          \* the run's transaction: "none", "open", "committed", "rolledback"
    txdb,        \* the table as seen inside the transaction
    net,         \* the probe traces the network can produce in this run
    pcMain,      \* position of ValidateAndUpdateBookmarks
    ret,         \* "running", nil, or the message of the returned error
    stats,       \* the report statistics
    report,      \* output/validation_report.txt: whether written, and its counts
    pcProd,      \* position of the producer goroutine
    cursor,      \* number of rows rows.Next() has yielded
    rowsClosed,  \* rows.Close() has run
    closed,      \* close(results) has run
    workQueue,   \* tokens in the workQueue channel
    task,        \* row id -> state of its probe goroutine
    crashed,     \* an unrecovered panic has ended the process
    readErr,     \* "none", "scan" (rows.Scan failed) or "next" (iteration failed)
    faults,      \* whether the store and the file system can fail in this run
    got,         \* row id -> the result the consumer received for it, with its probe
    imp,         \* the last SaveBookmarks call: its batch, the store failure it met,
                 \* the table before it and the error it returned
    doc,         \* the document handed to Parse
    parsed,      \* what Parse returned for doc
    out          \* the files the exporters wrote

vars == <<db, db0, tx, txdb, net, pcMain, ret, stats, report, pcProd, cursor,
          rowsClosed, closed, workQueue, task, crashed, readErr, faults, got,
          imp, doc, parsed, out>>

\* The state of a validation run, apart from the table.
runVars == <<db0, tx, txdb, net, pcMain, ret, stats, report, pcProd, cursor,
             rowsClosed, closed, workQueue, task, crashed, readErr, faults, got>>

\* What the import, the parser and the exporters leave behind.
ioVars == <<imp, doc, parsed, out>>

NoImport == [called |-> FALSE]

NoDocument == [given |-> FALSE]

NoParse == [done |-> FALSE]

NoFiles == [valid |-> [written |-> FALSE], dead |-> [written |-> FALSE],
            redirects |-> [written |-> FALSE]]

\* duplicate_of of a row that is no duplicate: stmt.Exec(..., false, nil).
NoRow == 0

\* The rows a validation run finds (id is the index in the table): either
\* never validated, or marked dead by an earlier run.
Rows ==
    {[title |-> <<"A">>, url |-> "http://a/", folder |-> <<>>,
      is_dead |-> FALSE, is_redirect |-> FALSE, redirect_url |-> NULL,
      is_duplicate |-> FALSE, duplicate_of |-> NoRow],
     [title |-> <<"B">>, url |-> "http://b/", folder |-> <<"F">>,
      is_dead |-> TRUE, is_redirect |-> FALSE, redirect_url |-> "",
      is_duplicate |-> FALSE, duplicate_of |-> NoRow]}

IDs == 1..Len(db)

ZeroStats == [total |-> 0, dead |-> 0, redirects |-> 0, valid |-> 0]

NoMessage == [src |-> "none"]

\* output/validation_report.txt before the run writes it.
NoReport == [written |-> FALSE, total |-> 0, valid |-> 0, dead |-> 0, redirects |-> 0]

\* The report text: the four labelled counts, formatted from stats.total,
\* stats.valid, stats.dead and stats.redirects in this order.
FormatReport(s) ==
    [written |-> TRUE, total |-> s.total, valid |-> s.valid, dead |-> s.dead,
     redirects |-> s.redirects]

InitStore(table, traces, canFail) ==
    /\ db = table /\ db0 = table /\ txdb = table
    /\ tx = "none"
    /\ net = traces
    /\ pcMain = "begin" /\ ret = "running"
    /\ stats = ZeroStats /\ report = NoReport
    /\ pcProd = "idle" /\ cursor = 0 /\ rowsClosed = FALSE /\ closed = FALSE
    /\ workQueue = 0
    /\ task = [i \in 1..Len(table) |-> "unlaunched"]
    /\ crashed = FALSE /\ readErr = "none"
    /\ faults = canFail
    /\ got = [i \in 1..Len(table) |-> NoMessage]

\* A validation run about to start: nothing imported, parsed or exported.
InitRun(table, traces, canFail) ==
    /\ InitStore(table, traces, canFail)
    /\ imp = NoImport /\ doc = NoDocument /\ parsed = NoParse /\ out = NoFiles

\* Any table of at most MaxRows rows; the network answers each probe with a
\* trace of one of the four classes.
Init == \E table \in SeqsUpTo(Rows, MaxRows) : InitRun(table, ClassTraces, TRUE)

\* As Init, with a store and a file system that do not fail.
InitReliable == \E table \in SeqsUpTo(Rows, MaxRows) : InitRun(table, ClassTraces, FALSE)

\* One stored row; the network answers with any trace of at most MaxHops
\* redirects.
InitProbe == \E row \in Rows : InitRun(<<row>>, ProbeTraces, TRUE)

\* PoolRows stored rows (more than the ceiling), every URL answering 200, and
\* a store and a file system that do not fail.
InitPool ==
    InitRun([i \in 1..PoolRows |->
                [title |-> <<"A">>, url |-> "http://a/", folder |-> <<>>,
                 is_dead |-> FALSE, is_redirect |-> FALSE, redirect_url |-> NULL,
                 is_duplicate |-> FALSE, duplicate_of |-> NoRow]],
            {DirectOK}, FALSE)

\* ----------------------------------------------------------- transactions
\* Mutant: the updates are written through to the table (no transaction).
TxRollbackKeepsWrites(committed, working) == working

\* The table after tx.Rollback(): the transaction's writes are discarded.
TxRollback(committed, working) == committed

\* The table after a successful tx.Commit().
TxCommit(committed, working) == working

\* return fmt.Errorf(...) / return nil, with the deferred stmt.Close(),
\* rows.Close() and tx.Rollback() (a no-op once the transaction is done).
Return(e) ==
    /\ pcMain' = "returned"
    /\ ret' = e
    /\ rowsClosed' = (rowsClosed \/ pcProd # "idle")
    /\ IF tx = "open"
       THEN tx' = "rolledback" /\ db' = TxRollback(db, txdb)
       ELSE UNCHANGED <<tx, db>>

\* ------------------------------------------------ ValidateAndUpdateBookmarks
\* tx, err := db.Begin()
Begin ==
    /\ UNCHANGED ioVars
    /\ ~crashed /\ pcMain = "begin"
    /\ \/ /\ tx' = "open" /\ txdb' = db /\ pcMain' = "query"
          /\ UNCHANGED <<db, ret, rowsClosed>>
       \/ /\ faults
          /\ Return("error starting transaction")
          /\ UNCHANGED txdb
    /\ UNCHANGED <<db0, net, stats, report, pcProd, cursor, closed, workQueue,
                   task, crashed, readErr, faults, got>>

\* rows, err := tx.Query(...); on success the channels are made, workQueue is
\* filled with workerCount tokens and the producer goroutine is started.
Query ==
    /\ UNCHANGED ioVars
    /\ ~crashed /\ pcMain = "query"
    /\ \/ /\ pcMain' = "prepare" /\ pcProd' = "next" /\ workQueue' = workerCount
          /\ UNCHANGED <<db, tx, ret, rowsClosed>>
       \/ /\ faults
          /\ Return("error querying bookmarks")
          /\ UNCHANGED <<pcProd, workQueue>>
    /\ UNCHANGED <<db0, txdb, net, stats, report, cursor, closed, task, crashed,
                   readErr, faults, got>>

\* stmt, err := tx.Prepare("UPDATE bookmarks SET ...")
Prepare ==
    /\ UNCHANGED ioVars
    /\ ~crashed /\ pcMain = "prepare"
    /\ \/ /\ pcMain' = "loop"
          /\ UNCHANGED <<db, tx, ret, rowsClosed>>
       \/ faults /\ Return("error preparing update statement")
    /\ UNCHANGED <<db0, txdb, net, stats, report, pcProd, cursor, closed,
                   workQueue, task, crashed, readErr, faults, got>>

\* Mutant: a result that is dead and a redirect is counted in both classes.
UpdateStatsBoth(s, result) ==
    [total     |-> s.total + 1,
     dead      |-> s.dead + (IF result.dead THEN 1 ELSE 0),
     redirects |-> s.redirects + (IF result.redirect THEN 1 ELSE 0),
     valid     |-> s.valid + (IF ~result.dead /\ ~result.redirect THEN 1 ELSE 0)]

\* stats.total++ and the if / else if / else over the result's class.
UpdateStats(s, result) ==
    [total     |-> s.total + 1,
     dead      |-> s.dead + (IF result.dead THEN 1 ELSE 0),
     redirects |-> s.redirects + (IF ~result.dead /\ result.redirect THEN 1 ELSE 0),
     valid     |-> s.valid + (IF ~result.dead /\ ~result.redirect THEN 1 ELSE 0)]

\* Mutant: the row is replaced by a new one that holds the url and the status
\* (INSERT OR REPLACE): the other columns fall back to their defaults.
ExecReplace(table, result) ==
    [i \in 1..Len(table) |->
        IF i = result.id
        THEN [title |-> <<>>, url |-> table[i].url, folder |-> <<>>,
              is_dead |-> result.dead, is_redirect |-> result.redirect,
              redirect_url |-> result.redirectURL,
              is_duplicate |-> FALSE, duplicate_of |-> NoRow]
        ELSE table[i]]

\* UPDATE bookmarks SET is_dead = ?, is_redirect = ?, redirect_url = ? WHERE id = ?
ExecUpdate(table, result) ==
    [i \in 1..Len(table) |->
        IF i = result.id
        THEN [table[i] EXCEPT !.is_dead = result.dead,
                              !.is_redirect = result.redirect,
                              !.redirect_url = result.redirectURL]
        ELSE table[i]]

\* if result.err != nil { return ... }
ResultAborts(result) == result.err # nil

\* One iteration of `for result := range results` on a received result.
Consume(result) ==
    IF ResultAborts(result)
    THEN /\ Return("error validating bookmark")
         /\ UNCHANGED <<txdb, stats>>
    ELSE \/ /\ txdb' = ExecUpdate(txdb, result)
            /\ stats' = UpdateStats(stats, result)
            /\ UNCHANGED <<db, tx, pcMain, ret, rowsClosed>>
         \/ /\ faults
            /\ Return("error updating bookmark status")
            /\ UNCHANGED <<txdb, stats>>

\* defer func() { workQueue <- struct{}{} }(): one token more.  The send never
\* blocks: the task's own token is missing from the channel while it runs.
Release(n) == n + 1

\* The probe goroutine of row i finishes ValidateBookmark and sends its result;
\* the range loop receives it (the channel is unbuffered) and handles it, and
\* the task returns, running its deferred release.
RecvTask(i) ==
    /\ UNCHANGED ioVars
    /\ ~crashed /\ pcMain = "loop" /\ ~closed
    /\ task[i] = "running"
    /\ \E trace \in net :
          LET result == TaskResult(i, db[i].url, trace)
          IN  /\ got' = [got EXCEPT ![i] = [src |-> "task", probe |-> trace, res |-> result]]
              /\ Consume(result)
    /\ task' = [task EXCEPT ![i] = "finished"]
    /\ workQueue' = Release(workQueue)
    /\ UNCHANGED <<db0, net, report, pcProd, cursor, closed, crashed, readErr,
                   faults>>

\* The producer's results <- validationResult{err: err} is received.
RecvScanErr ==
    /\ UNCHANGED ioVars
    /\ ~crashed /\ pcMain = "loop" /\ ~closed
    /\ pcProd = "sendErr"
    /\ pcProd' = "next"
    /\ UNCHANGED got
    /\ Consume(ScanErrResult)
    /\ UNCHANGED <<db0, net, report, cursor, closed, workQueue, task, crashed,
                   readErr, faults>>

\* The range loop finds the channel closed and ends.
RecvClosed ==
    /\ UNCHANGED ioVars
    /\ ~crashed /\ pcMain = "loop" /\ closed
    /\ pcMain' = "commit"
    /\ UNCHANGED <<db, db0, tx, txdb, net, ret, stats, report, pcProd, cursor,
                   rowsClosed, closed, workQueue, task, crashed, readErr, faults, got>>

\* Mutant: the report is generated first and the commit left for later.
CommitAfterReport ==
    /\ UNCHANGED ioVars
    /\ ~crashed /\ pcMain = "commit"
    /\ pcMain' = "mkdir"
    /\ UNCHANGED <<db, tx, ret, rowsClosed, db0, txdb, net, stats, report, pcProd,
                   cursor, closed, workQueue, task, crashed, readErr, faults, got>>

\* tx.Commit()
Commit ==
    /\ UNCHANGED ioVars
    /\ ~crashed /\ pcMain = "commit"
    /\ \/ /\ tx' = "committed" /\ db' = TxCommit(db, txdb) /\ pcMain' = "mkdir"
          /\ UNCHANGED <<ret, rowsClosed>>
       \/ faults /\ Return("error committing transaction")
    /\ UNCHANGED <<db0, txdb, net, stats, report, pcProd, cursor, closed,
                   workQueue, task, crashed, readErr, faults, got>>

\* os.MkdirAll("output", 0755)
MkdirOutput ==
    /\ UNCHANGED ioVars
    /\ ~crashed /\ pcMain = "mkdir"
    /\ \/ /\ pcMain' = "write"
          /\ UNCHANGED <<db, tx, ret, rowsClosed>>
       \/ faults /\ Return("error creating output directory")
    /\ UNCHANGED <<db0, txdb, net, stats, report, pcProd, cursor, closed,
                   workQueue, task, crashed, readErr, faults, got>>

\* os.WriteFile(reportPath, report, 0644); return nil
WriteReport ==
    /\ UNCHANGED ioVars
    /\ ~crashed /\ pcMain = "write"
    /\ \/ /\ report' = FormatReport(stats)
          /\ Return(nil)
       \/ /\ faults
          /\ Return("error writing report")
          /\ UNCHANGED report
    /\ UNCHANGED <<db0, txdb, net, stats, pcProd, cursor, closed, workQueue,
                   task, crashed, readErr, faults, got>>

\* ------------------------------------------------------------ the producer
\* rows.Next() and rows.Scan(&id, &url).  Next returns false when the rows are
\* exhausted or closed, and also when the iteration fails (rows.Err() is not
\* consulted): the loop ends and the deferred close(results) runs.
ProducerNext ==
    /\ UNCHANGED ioVars
    /\ ~crashed /\ pcProd = "next"
    /\ \/ /\ cursor = Len(db) \/ rowsClosed
          /\ closed' = TRUE /\ pcProd' = "done"
          /\ UNCHANGED <<cursor, readErr>>
       \/ /\ cursor < Len(db) /\ ~rowsClosed /\ faults
          /\ closed' = TRUE /\ pcProd' = "done" /\ readErr' = "next"
          /\ UNCHANGED cursor
       \/ /\ cursor < Len(db) /\ ~rowsClosed
          /\ cursor' = cursor + 1
          /\ \/ pcProd' = "acquire" /\ UNCHANGED readErr
             \/ faults /\ pcProd' = "sendErr" /\ readErr' = "scan"
          /\ UNCHANGED closed
    /\ UNCHANGED <<db, db0, tx, txdb, net, pcMain, ret, stats, report,
                   rowsClosed, workQueue, task, crashed, faults, got>>

\* <-workQueue: one token fewer.
Acquire(n) == n - 1

\* Mutant: the producer does not wait for a token.
CanAcquireAlways(n) == TRUE

\* <-workQueue blocks while the channel is empty.
CanAcquire(n) == n > 0

\* <-workQueue (acquire a slot), then go func() { ... }() for the scanned row.
ProducerAcquire ==
    /\ UNCHANGED ioVars
    /\ ~crashed /\ pcProd = "acquire"
    /\ CanAcquire(workQueue)
    /\ workQueue' = Acquire(workQueue)
    /\ task' = [task EXCEPT ![cursor] = "running"]
    /\ pcProd' = "next"
    /\ UNCHANGED <<db, db0, tx, txdb, net, pcMain, ret, stats, report, cursor,
                   rowsClosed, closed, crashed, readErr, faults, got>>

\* --------------------------------------------------------- the probe tasks
\* A task that sends, or is blocked sending, on the closed channel panics: its
\* deferred release runs and the unrecovered panic ends the process.  A
\* transaction still open is lost with the process.
TaskPanic(i) ==
    /\ UNCHANGED ioVars
    /\ ~crashed /\ task[i] = "running" /\ closed
    /\ task' = [task EXCEPT ![i] = "panicked"]
    /\ workQueue' = Release(workQueue)
    /\ crashed' = TRUE
    /\ UNCHANGED <<db, db0, tx, txdb, net, pcMain, ret, stats, report, pcProd,
                   cursor, rowsClosed, closed, readErr, faults, got>>

Next ==
    \/ Begin
    \/ Query
    \/ Prepare
    \/ \E i \in IDs : RecvTask(i)
    \/ RecvScanErr
    \/ RecvClosed
    \/ Commit
    \/ MkdirOutput
    \/ WriteReport
    \/ ProducerNext
    \/ ProducerAcquire
    \/ \E i \in IDs : TaskPanic(i)

Spec == Init /\ [][Next]_vars

SpecProbe == InitProbe /\ [][Next]_vars

\* The Go scheduler runs every goroutine that can take a step: a run goes on
\* for as long as the function, the producer or a task is not blocked.
SpecLive == Init /\ [][Next]_vars /\ WF_vars(Next)

\* A run whose store never fails: no scan error is ever sent.
NextReliable ==
    \/ Begin
    \/ Query
    \/ Prepare
    \/ \E i \in IDs : RecvTask(i)
    \/ RecvClosed
    \/ Commit
    \/ MkdirOutput
    \/ WriteReport
    \/ ProducerNext
    \/ ProducerAcquire
    \/ \E i \in IDs : TaskPanic(i)

\* Any table of at most MaxRows rows, a store and a file system that do not fail.
SpecReliable == InitReliable /\ [][NextReliable]_vars

SpecPool == InitPool /\ [][NextReliable]_vars

\* ------------------------------------------------------------ SaveBookmarks
\* The records an imported batch is made of, as Parse returns them: titles and
\* folder labels are sequences of characters, URLs are opaque.
BatchRecords ==
    {[Title |-> <<"A">>, URL |-> "http://a/", Folder |-> <<>>],
     [Title |-> <<"B">>, URL |-> "http://b/", Folder |-> <<"F">>]}

Batches == SeqsUpTo(BatchRecords, MaxBatch)

\* The store failure one SaveBookmarks call meets: none, or a failing
\* db.Begin, tx.Prepare or tx.Commit, or the failing lookup or insert of the
\* record at index `at`.
ImportFaults(batch) ==
    {[kind |-> k, at |-> 0] : k \in {"none", "begin", "prepare", "commit"}}
    \cup {[kind |-> k, at |-> i] : k \in {"lookup", "insert"}, i \in 1..Len(batch)}

\* Mutant: the lookup has lost its WHERE clause and finds the first row.
FindFirstRow(table, url) == IF table = <<>> THEN NoRow ELSE 1

\* SELECT id FROM bookmarks WHERE url = ?, scanned into one id: the first
\* matching row in rowid order, NoRow when there is none (sql.ErrNoRows).
FindByExactURL(table, url) ==
    LET matches == {i \in 1..Len(table) : table[i].url = url}
    IN  IF matches = {} THEN NoRow
        ELSE CHOOSE i \in matches : \A j \in matches : i <= j

\* The error of QueryRow(...).Scan(&existingID) for the record at index k.
LookupErr(table, batch, k, fault) ==
    IF fault.kind = "lookup" /\ fault.at = k THEN "store error"
    ELSE IF FindByExactURL(table, batch[k].URL) = NoRow THEN "sql: no rows in result set"
    ELSE nil

\* The first loop: urlMap[b.URL] = existingID whenever the lookup's err == nil.
RECURSIVE BuildURLMap(_, _, _, _, _)
BuildURLMap(table, batch, k, fault, urlMap) ==
    IF k > Len(batch) THEN urlMap
    ELSE LET url == batch[k].URL
             hit == LookupErr(table, batch, k, fault) = nil
             map == IF hit
                    THEN [u \in DOMAIN urlMap \cup {url} |->
                             IF u = url THEN FindByExactURL(table, url) ELSE urlMap[u]]
                    ELSE urlMap
         IN  BuildURLMap(table, batch, k + 1, fault, map)

\* Mutant: the lookup is made when the record is inserted, on the table as the
\* transaction has it by then.
ClassifyLive(urlMap, working, url) == FindByExactURL(working, url)

\* duplicateID, exists := urlMap[b.URL]; NoRow when it does not exist.  The
\* table the transaction has built so far is not consulted.
Classify(urlMap, working, url) ==
    IF url \in DOMAIN urlMap THEN urlMap[url] ELSE NoRow

\* Mutant: the insert of the earlier revision, without the duplicate columns.
NewRowNoDuplicateColumns(b, duplicateID) ==
    [title |-> b.Title, url |-> b.URL, folder |-> b.Folder,
     is_dead |-> FALSE, is_redirect |-> FALSE, redirect_url |-> NULL,
     is_duplicate |-> FALSE, duplicate_of |-> NoRow]

\* INSERT INTO bookmarks (title, url, folder, is_duplicate, duplicate_of): the
\* other columns take their defaults.
NewRow(b, duplicateID) ==
    [title |-> b.Title, url |-> b.URL, folder |-> b.Folder,
     is_dead |-> FALSE, is_redirect |-> FALSE, redirect_url |-> NULL,
     is_duplicate |-> duplicateID # NoRow, duplicate_of |-> duplicateID]

\* Mutant: an insert flagged as duplicate flags the row it duplicates as well.
RECURSIVE InsertAllMarkingOriginal(_, _, _, _, _)
InsertAllMarkingOriginal(working, batch, k, fault, urlMap) ==
    IF k > Len(batch) THEN [table |-> working, err |-> nil]
    ELSE IF fault.kind = "insert" /\ fault.at = k
         THEN [table |-> working, err |-> "store error"]
         ELSE LET duplicateID == Classify(urlMap, working, batch[k].URL)
                  marked == [i \in 1..Len(working) |->
                                IF i = duplicateID
                                THEN [working[i] EXCEPT !.is_duplicate = TRUE]
                                ELSE working[i]]
              IN  InsertAllMarkingOriginal(Append(marked, NewRow(batch[k], duplicateID)),
                                           batch, k + 1, fault, urlMap)

\* The second loop: one insert per record, stopping at the first that fails.
RECURSIVE InsertAll(_, _, _, _, _)
InsertAll(working, batch, k, fault, urlMap) ==
    IF k > Len(batch) THEN [table |-> working, err |-> nil]
    ELSE IF fault.kind = "insert" /\ fault.at = k
         THEN [table |-> working, err |-> "store error"]
         ELSE InsertAll(Append(working, NewRow(batch[k], Classify(urlMap, working, batch[k].URL))),
                        batch, k + 1, fault, urlMap)

\* SaveBookmarks: the table afterwards and the returned error.
SaveBookmarks(table, batch, fault) ==
    IF fault.kind = "begin" THEN [db |-> table, err |-> "store error"]
    ELSE LET urlMap == BuildURLMap(table, batch, 1, fault, <<>>)
         IN  IF fault.kind = "prepare"
             THEN [db |-> TxRollback(table, table), err |-> "store error"]
             ELSE LET ins == InsertAll(table, batch, 1, fault, urlMap)
                  IN  IF ins.err # nil
                      THEN [db |-> TxRollback(table, ins.table), err |-> ins.err]
                      ELSE IF fault.kind = "commit"
                           THEN [db |-> TxRollback(table, ins.table), err |-> "store error"]
                           ELSE [db |-> TxCommit(table, ins.table), err |-> nil]

\* One call of SaveBookmarks on the current table.
Import ==
    \E batch \in Batches :
        /\ Len(db) + Len(batch) <= MaxStore
        /\ \E fault \in ImportFaults(batch) :
              LET r == SaveBookmarks(db, batch, fault)
              IN  /\ db' = r.db
                  /\ imp' = [called |-> TRUE, batch |-> batch, fault |-> fault,
                             before |-> db, err |-> r.err]
        /\ UNCHANGED <<runVars, doc, parsed, out>>

\* The empty store of a new database.
InitImport == InitRun(<<>>, ClassTraces, TRUE)

NextImport == Import

\* Any sequence of imports into a new store.
SpecImport == InitImport /\ [][NextImport]_vars

\* -------------------------------------------------------------------- Parse
\* The tree html.Parse returns, as Parse walks it: a node has a Type, its Data
\* (the tag name of an element, the characters of a text node), its Attr and
\* its children from FirstChild along NextSibling.
TextNode(data) == [type |-> "text", data |-> data, attr |-> <<>>, kids |-> <<>>]

ElementNode(tag, attr, kids) == [type |-> "element", data |-> tag, attr |-> attr, kids |-> kids]

Href(val) == <<[Key |-> "href", Val |-> val]>>

\* Link elements: a well-formed one, one whose title has surrounding blanks,
\* and the malformed ones: no href, an empty href, no child, a blank title.
Links ==
    {ElementNode(<<"a">>, Href("http://a/"), <<TextNode(<<"A">>)>>),
     ElementNode(<<"a">>, Href("http://b/"), <<TextNode(<<" ", "B", " ">>)>>),
     ElementNode(<<"a">>, <<>>, <<TextNode(<<"A">>)>>),
     ElementNode(<<"a">>, Href(""), <<TextNode(<<"A">>)>>),
     ElementNode(<<"a">>, Href("http://a/"), <<>>),
     ElementNode(<<"a">>, Href("http://a/"), <<TextNode(<<" ">>)>>)}

\* Folder headings: with a label, without any child, and with the label
\* inside an inline element.
Headings ==
    {ElementNode(<<"h", "3">>, <<>>, <<TextNode(<<"F">>)>>),
     ElementNode(<<"h", "3">>, <<>>, <<>>),
     ElementNode(<<"h", "3">>, <<>>, <<ElementNode(<<"b">>, <<>>, <<TextNode(<<"H">>)>>)>>)}

\* What a nested list holds.
NestedItems ==
    {ElementNode(<<"a">>, Href("http://c/"), <<TextNode(<<"C">>)>>),
     ElementNode(<<"h", "3">>, <<>>, <<TextNode(<<"G">>)>>)}

\* The nested lists of at most n nodes.
NestedLists(n) == {ElementNode(<<"d", "l">>, <<>>, kids) : kids \in SeqsUpTo(NestedItems, n)}

\* The documents of at most n top-level nodes: links, headings, nested lists.
Documents(n) ==
    {ElementNode(<<"d", "l">>, <<>>, kids) :
        kids \in SeqsUpTo(Links \cup Headings \cup NestedLists(MaxNested), n)}

IsSpace(c) == c \in {" ", "\t", "\n", "\r"}

\* strings.TrimSpace: the text without its leading and trailing white space.
RECURSIVE TrimSpace(_)
TrimSpace(str) ==
    IF str = <<>> THEN str
    ELSE IF IsSpace(Head(str)) THEN TrimSpace(Tail(str))
    ELSE IF IsSpace(str[Len(str)]) THEN TrimSpace(SubSeq(str, 1, Len(str) - 1))
    ELSE str

\* The loop over n.Attr: the value of the first href attribute, "" without one.
RECURSIVE AttrHref(_, _)
AttrHref(attr, i) ==
    IF i > Len(attr) THEN ""
    ELSE IF attr[i].Key = "href" THEN attr[i].Val
    ELSE AttrHref(attr, i + 1)

\* title = n.FirstChild.Data when there is a first child, "" otherwise.
FirstChildData(n) == IF n.kids # <<>> THEN n.kids[1].data ELSE <<>>

\* case "h3".
VisitHeading(n, st) ==
    IF n.kids # <<>> THEN [st EXCEPT !.currentFolder = n.kids[1].data] ELSE st

\* case "a".
VisitLink(n, st) ==
    LET url == AttrHref(n.attr, 1)
        title == FirstChildData(n)
    IN  IF url # "" /\ title # <<>>
        THEN [st EXCEPT !.bookmarks =
                 Append(@, [Title |-> TrimSpace(title), URL |-> url,
                            Folder |-> st.currentFolder])]
        ELSE st

VisitNode(n, st) ==
    IF n.type = "element" /\ n.data = <<"h", "3">> THEN VisitHeading(n, st)
    ELSE IF n.type = "element" /\ n.data = <<"a">> THEN VisitLink(n, st)
    ELSE st

\* traverse: the node itself, then its children from first to last.
RECURSIVE traverse(_, _)
RECURSIVE traverseChildren(_, _, _)
traverse(n, st) == traverseChildren(n.kids, 1, VisitNode(n, st))

traverseChildren(kids, i, st) ==
    IF i > Len(kids) THEN st
    ELSE traverseChildren(kids, i + 1, traverse(kids[i], st))

\* Parse: the bookmarks collected by traverse(doc).
Parse(root) == traverse(root, [currentFolder |-> <<>>, bookmarks |-> <<>>]).bookmarks

\* One call of Parse on the given document.
ParseDocument ==
    /\ doc.given /\ ~parsed.done
    /\ parsed' = [done |-> TRUE, bookmarks |-> Parse(doc.root)]
    /\ UNCHANGED <<db, runVars, imp, doc, out>>

\* Any document of at most MaxItems top-level nodes, not parsed yet.
InitParse ==
    /\ InitStore(<<>>, ClassTraces, FALSE)
    /\ imp = NoImport /\ parsed = NoParse /\ out = NoFiles
    /\ \E root \in Documents(MaxItems) : doc = [given |-> TRUE, root |-> root]

NextParse == ParseDocument

SpecParse == InitParse /\ [][NextParse]_vars

\* ------------------------------------------------------------------ exports
\* The stores an export can find after imports and validation runs: rows
\* never validated, and rows a validation marked dead, redirecting, or both.
StatusClasses ==
    {[is_dead |-> FALSE, is_redirect |-> FALSE, redirect_url |-> NULL],
     [is_dead |-> TRUE, is_redirect |-> FALSE, redirect_url |-> ""],
     [is_dead |-> FALSE, is_redirect |-> TRUE, redirect_url |-> "http://t1/"],
     [is_dead |-> TRUE, is_redirect |-> TRUE, redirect_url |-> "http://t1/"]}

StoredRows ==
    {[title |-> b.Title, url |-> b.URL, folder |-> f,
      is_dead |-> c.is_dead, is_redirect |-> c.is_redirect, redirect_url |-> c.redirect_url,
      is_duplicate |-> FALSE, duplicate_of |-> NoRow] :
        b \in BatchRecords, f \in {<<>>, <<"F">>}, c \in StatusClasses}

\* The byte of a character, for the BINARY collation of ORDER BY.
Byte(c) ==
    CASE c = " " -> 32 [] c = "A" -> 65 [] c = "B" -> 66 [] c = "C" -> 67
      [] c = "F" -> 70 [] c = "G" -> 71 [] c = "H" -> 72

\* s sorts before t: byte by byte, a prefix before its extensions.
RECURSIVE TextLess(_, _)
TextLess(s, t) ==
    IF t = <<>> THEN FALSE
    ELSE IF s = <<>> THEN TRUE
    ELSE IF Head(s) # Head(t) THEN Byte(Head(s)) < Byte(Head(t))
    ELSE TextLess(Tail(s), Tail(t))

\* ORDER BY folder, title.
RowLess(r, q) ==
    \/ TextLess(r.folder, q.folder)
    \/ r.folder = q.folder /\ TextLess(r.title, q.title)

RECURSIVE InsertRow(_, _)
InsertRow(sorted, r) ==
    IF sorted = <<>> THEN <<r>>
    ELSE IF RowLess(r, Head(sorted)) THEN <<r>> \o sorted
    ELSE <<Head(sorted)>> \o InsertRow(Tail(sorted), r)

\* Rows of equal folder and title stay in rowid order.
RECURSIVE OrderByFolderTitle(_)
OrderByFolderTitle(rows) ==
    IF rows = <<>> THEN <<>>
    ELSE InsertRow(OrderByFolderTitle(SubSeq(rows, 1, Len(rows) - 1)), rows[Len(rows)])

\* Mutant: the valid export leaves out the dead rows only.
IsValidIgnoringRedirect(row) == row.is_dead = FALSE

\* WHERE is_dead = FALSE AND is_redirect = FALSE.
IsValid(row) == row.is_dead = FALSE /\ row.is_redirect = FALSE

\* WHERE is_dead = TRUE.
IsDead(row) == row.is_dead = TRUE

\* WHERE is_redirect = TRUE.
IsRedirect(row) == row.is_redirect = TRUE

\* rows.Scan(&b.Title, &b.URL, &b.Folder), and &redirectURL for the redirect
\* export ("" for the others).
Scan(row, withRedirect) ==
    [Title |-> row.title, URL |-> row.url, Folder |-> row.folder,
     RedirectURL |-> IF withRedirect THEN row.redirect_url ELSE ""]

QueryValid(table) ==
    LET rows == OrderByFolderTitle(SelectSeq(table, IsValid))
    IN  [i \in 1..Len(rows) |-> Scan(rows[i], FALSE)]

QueryDead(table) ==
    LET rows == OrderByFolderTitle(SelectSeq(table, IsDead))
    IN  [i \in 1..Len(rows) |-> Scan(rows[i], FALSE)]

QueryRedirect(table) ==
    LET rows == OrderByFolderTitle(SelectSeq(table, IsRedirect))
    IN  [i \in 1..Len(rows) |-> Scan(rows[i], TRUE)]

\* bookmarksByFolder: for each folder label read, its bookmarks in read order.
BookmarksByFolder(read) ==
    [f \in {read[i].Folder : i \in 1..Len(read)} |->
        SelectSeq(read, LAMBDA b : b.Folder = f)]

\* The orders in which `range bookmarksByFolder` can yield the keys of the
\* map: Go leaves the iteration order of a map unspecified and randomises it.
RangeOrders(keys) ==
    {order \in [1..Cardinality(keys) -> keys] :
        \A i, j \in 1..Cardinality(keys) : i # j => order[i] # order[j]}

\* <DT><A HREF="%s">%s</A>, followed by " (Redirects to: %s)" in the redirect
\* export: the nodes html.Parse reads from that line. An empty %s leaves the
\* element without a text child.
LinkNodes(b, withRedirect) ==
    <<ElementNode(<<"a">>, Href(b.URL),
                  IF b.Title = <<>> THEN <<>> ELSE <<TextNode(b.Title)>>)>>
    \o (IF withRedirect THEN <<TextNode(<<" ", "(Redirects to:", " ", b.RedirectURL, ")">>)>>
        ELSE <<>>)

RECURSIVE LinksNodes(_, _)
LinksNodes(bookmarks, withRedirect) ==
    IF bookmarks = <<>> THEN <<>>
    ELSE LinkNodes(Head(bookmarks), withRedirect) \o LinksNodes(Tail(bookmarks), withRedirect)

\* One pass of the write loop: the links alone for the folder "", and inside
\* <DT><H3>%s</H3><DL><p> ... </DL><p> for any other.
FolderNodes(folder, bookmarks, withRedirect) ==
    IF folder # <<>>
    THEN <<ElementNode(<<"h", "3">>, <<>>, <<TextNode(folder)>>),
           ElementNode(<<"d", "l">>, <<>>, LinksNodes(bookmarks, withRedirect))>>
    ELSE LinksNodes(bookmarks, withRedirect)

RECURSIVE GroupsNodes(_, _, _, _)
GroupsNodes(byFolder, order, i, withRedirect) ==
    IF i > Len(order) THEN <<>>
    ELSE FolderNodes(order[i], byFolder[order[i]], withRedirect)
         \o GroupsNodes(byFolder, order, i + 1, withRedirect)

\* The document an export writes, as html.Parse reads it back, when the range
\* over the map yields the folders in the given order.
WriteHTML(read, order, withRedirect) ==
    [written |-> TRUE,
     root |-> ElementNode(<<"d", "l">>, <<>>,
                          GroupsNodes(BookmarksByFolder(read), order, 1, withRedirect))]

ExportTo(file, read, withRedirect) ==
    /\ \E order \in RangeOrders(DOMAIN BookmarksByFolder(read)) :
          out' = [out EXCEPT ![file] = WriteHTML(read, order, withRedirect)]
    /\ UNCHANGED <<db, runVars, imp, doc, parsed>>

ExportValidBookmarks == ExportTo("valid", QueryValid(db), FALSE)

ExportDeadBookmarks == ExportTo("dead", QueryDead(db), FALSE)

ExportRedirectBookmarks == ExportTo("redirects", QueryRedirect(db), TRUE)

\* ParseFile on the document the valid export wrote.
ParseExported ==
    /\ out.valid.written
    /\ doc' = [given |-> TRUE, root |-> out.valid.root]
    /\ parsed' = [done |-> TRUE, bookmarks |-> Parse(out.valid.root)]
    /\ UNCHANGED <<db, runVars, imp, out>>

\* Any store of at most MaxExportRows rows, nothing exported yet.
InitExport ==
    /\ \E table \in SeqsUpTo(StoredRows, MaxExportRows) : InitStore(table, ClassTraces, FALSE)
    /\ imp = NoImport /\ doc = NoDocument /\ parsed = NoParse /\ out = NoFiles

NextExport ==
    \/ ExportValidBookmarks
    \/ ExportDeadBookmarks
    \/ ExportRedirectBookmarks
    \/ ParseExported

SpecExport == InitExport /\ [][NextExport]_vars

\* ------------------------------------------------------------- properties
\* Number of probe tasks launched and not yet finished.
InFlight == Cardinality({i \in IDs : task[i] = "running"})

\* The range loop has ended because it found the channel closed.
LoopEnded == pcMain \in {"commit", "mkdir", "write"} \/ ret = nil \/
             ret \in {"error committing transaction", "error creating output directory",
                      "error writing report"}

\* The consumer has received the result of row i's probe.
Received(i) == got[i].src = "task"

\* Whether a GET ended in a transport error or an HTTP status >= 400.
ProbeFailed(trace) == trace.err \/ trace.status >= 400

\* C1: the results channel is closed only after every launched task has sent
\* its result, so no task ever sends on the closed channel.
C1_ClosedOnlyAfterAllSent ==
    closed => \A i \in IDs : task[i] \in {"unlaunched", "finished"}

\* C2: without row-read errors, when the consumer's loop has ended it has
\* received exactly one result for every stored id.
C2_ExactlyOneResultPerRow ==
    (LoopEnded /\ readErr = "none") =>
        /\ \A i \in IDs : Received(i)
        /\ stats.total = Len(db0)

\* C3: a run without row-read errors that commits and writes its report
\* reports a total equal to the number of rows stored when the run started.
C3_ReportTotalIsN ==
    (report.written /\ readErr = "none") => report.total = Len(db0)

\* C4: valid + dead + redirects == total at every step of the consumer loop
\* and in the written report.
C4_CountsAddUp ==
    /\ stats.valid + stats.dead + stats.redirects = stats.total
    /\ report.written => report.valid + report.dead + report.redirects = report.total

\* C4 witness: a report is written after a result that is both dead and a
\* redirect was counted.
C4_Witness ==
    /\ report.written
    /\ \E i \in IDs : Received(i) /\ got[i].res.dead /\ got[i].res.redirect

\* C5: at most workerCount probe tasks are in flight, and free slots plus
\* in-flight tasks always equals workerCount once the pool is set up.
C5_PoolBounded ==
    pcProd # "idle" =>
        /\ InFlight <= workerCount
        /\ workQueue >= 0
        /\ workQueue + InFlight = workerCount

\* C5 witness: workerCount tasks are in flight and the producer, holding the
\* next row, is blocked on the empty workQueue.
C5_Witness ==
    InFlight = workerCount /\ workQueue = 0 /\ pcProd = "acquire"

\* C6: if reading a stored row fails, the run returns an error and the
\* store's rows stay exactly as before the run.
C6_ReadErrorAborts ==
    readErr # "none" =>
        /\ db = db0
        /\ pcMain = "returned" => ret # nil

\* C6, restricted to a failing rows.Scan (the failure the loop reports).
C6_ScanErrorAborts ==
    readErr = "scan" =>
        /\ db = db0
        /\ pcMain = "returned" => ret # nil

\* C7 as stated: whenever the run returns an error, for whatever reason, no
\* status update of the run is persisted.
C7_AnyErrorLeavesStore ==
    (pcMain = "returned" /\ ret # nil) => db = db0

\* Errors returned after the commit.
ReportErrors == {"error creating output directory", "error writing report"}

\* C7 amended: an error returned before or by the commit leaves the store as
\* it was before the run; an error about the report is returned after the
\* commit, with the run's updates persisted.
C7_ErrorUpToCommitLeavesStore ==
    (pcMain = "returned" /\ ret # nil) =>
        IF ret \in ReportErrors
        THEN tx = "committed" /\ db = txdb
        ELSE tx # "committed" /\ db = db0

\* C7 witness: the run returned an error after an update had been applied
\* inside the transaction.
C7_Witness ==
    /\ pcMain = "returned"
    /\ ret \in {"error updating bookmark status", "error committing transaction",
                "error validating bookmark"}
    /\ txdb # db0

\* C8: a probe that ends in a transport error or an HTTP status >= 400 yields
\* a result with dead=true and no error, which is applied like any other, and
\* the run is never aborted for it.
C8_ProbeFailureNeverAborts ==
    /\ \A i \in IDs :
          (Received(i) /\ ProbeFailed(got[i].probe)) =>
              /\ got[i].res.dead
              /\ got[i].res.err = nil
              /\ ret # "error updating bookmark status" =>
                    /\ txdb[i].is_dead = got[i].res.dead
                    /\ txdb[i].is_redirect = got[i].res.redirect
                    /\ txdb[i].redirect_url = got[i].res.redirectURL
    /\ ret = "error validating bookmark" => readErr = "scan"

\* C8 witness: a run has committed the dead mark of a probe whose GET ended in
\* HTTP status 400.
C8_Witness ==
    /\ tx = "committed"
    /\ \E i \in IDs :
          /\ Received(i) /\ ~got[i].probe.err /\ got[i].probe.status = 400
          /\ db[i].is_dead

\* C9: every result a probe task emits has redirectURL non-empty exactly when
\* redirect is true.
C9_RedirectURLWellFormed ==
    \A i \in IDs :
        Received(i) => (got[i].res.redirect <=> got[i].res.redirectURL # "")

\* C9 witness: a result of a probe that followed two redirects and then failed
\* in transport.
C9_Witness ==
    \E i \in IDs :
        Received(i) /\ Len(got[i].probe.hops) >= 2 /\ got[i].probe.err /\ got[i].res.redirect

\* C10: a probe that ends in a transport failure, at whatever hop, yields
\* dead=true, redirect=false and no redirectURL.
C10_TransportFailureNoRedirect ==
    \A i \in IDs :
        (Received(i) /\ got[i].probe.err) =>
            /\ got[i].res.dead
            /\ ~got[i].res.redirect
            /\ got[i].res.redirectURL = ""

\* The row the last import stored for the record at index k of its batch.
Stored(k) == db[Len(imp.before) + k]

\* The rows that held the URL of record k before the last import.
Earlier(k) == {i \in 1..Len(imp.before) : imp.before[i].url = imp.batch[k].URL}

\* C11: an import that meets no store failure inserts every record of the
\* batch; a record whose URL exactly one earlier row holds is inserted with
\* is_duplicate=true and duplicate_of that row's id, a record whose URL no
\* earlier row holds with is_duplicate=false and duplicate_of unset.
C11_DuplicateOfEarlierRow ==
    (imp.called /\ imp.fault.kind = "none") =>
        /\ imp.err = nil
        /\ Len(db) = Len(imp.before) + Len(imp.batch)
        /\ \A i \in 1..Len(imp.before) : db[i] = imp.before[i]
        /\ \A k \in 1..Len(imp.batch) :
              /\ Stored(k).title = imp.batch[k].Title
              /\ Stored(k).url = imp.batch[k].URL
              /\ Stored(k).folder = imp.batch[k].Folder
              /\ Cardinality(Earlier(k)) = 1 =>
                    /\ Stored(k).is_duplicate
                    /\ Stored(k).duplicate_of \in Earlier(k)
              /\ Earlier(k) = {} =>
                    /\ ~Stored(k).is_duplicate
                    /\ Stored(k).duplicate_of = NoRow

\* C11 witness: an import into a store of one row, of a batch with one record
\* of that row's URL and one record of a URL the store does not hold.
C11_Witness ==
    /\ imp.called /\ imp.fault.kind = "none"
    /\ Len(imp.before) = 1
    /\ \E k \in 1..Len(imp.batch) : Earlier(k) = {1} /\ Stored(k).duplicate_of = 1
    /\ \E k \in 1..Len(imp.batch) : Earlier(k) = {}

\* C12: a record whose URL the store did not hold before the import is
\* inserted with is_duplicate=false, whatever else the batch contains; an
\* import into an empty store flags no duplicate.
C12_NoDuplicateWithinBatch ==
    (imp.called /\ imp.err = nil) =>
        /\ \A k \in 1..Len(imp.batch) :
              Earlier(k) = {} => (~Stored(k).is_duplicate /\ Stored(k).duplicate_of = NoRow)
        /\ imp.before = <<>> => \A i \in 1..Len(db) : ~db[i].is_duplicate

\* C12 witness: two records of one batch share a URL and were imported into an
\* empty store.
C12_Witness ==
    /\ imp.called /\ imp.err = nil /\ imp.before = <<>>
    /\ \E k, l \in 1..Len(imp.batch) : k < l /\ imp.batch[k].URL = imp.batch[l].URL

\* C13: if the insert of a record fails, SaveBookmarks returns an error and
\* the store equals its state before the call.
C13_FailedInsertRollsBack ==
    (imp.called /\ imp.fault.kind = "insert") => (imp.err # nil /\ db = imp.before)

\* C13 witness: the insert of the second record of a batch failed.
C13_Witness ==
    imp.called /\ imp.fault.kind = "insert" /\ imp.fault.at = 2

\* C14: if the lookup of a record fails with a store error, SaveBookmarks
\* returns an error and inserts nothing.
C14_FailedLookupIsFatal ==
    (imp.called /\ imp.fault.kind = "lookup") => (imp.err # nil /\ db = imp.before)

\* The element nodes of the tree in depth-first document order.
RECURSIVE Preorder(_)
RECURSIVE PreorderChildren(_, _)
Preorder(n) == <<n>> \o PreorderChildren(n.kids, 1)

PreorderChildren(kids, i) ==
    IF i > Len(kids) THEN <<>>
    ELSE Preorder(kids[i]) \o PreorderChildren(kids, i + 1)

\* The text of an element: the characters of its text nodes, in order.
RECURSIVE TextContent(_)
RECURSIVE TextContentOf(_, _)
TextContent(n) == IF n.type = "text" THEN n.data ELSE TextContentOf(n.kids, 1)

TextContentOf(kids, i) ==
    IF i > Len(kids) THEN <<>>
    ELSE TextContent(kids[i]) \o TextContentOf(kids, i + 1)

IsHeading(n) == n.type = "element" /\ n.data = <<"h", "3">>

IsLink(n) == n.type = "element" /\ n.data = <<"a">>

\* The link has an href and a title text that is more than white space.
WellFormedLink(n) ==
    IsLink(n) /\ AttrHref(n.attr, 1) # "" /\ TrimSpace(TextContent(n)) # <<>>

\* The label of the last heading before position i of the walk, empty when
\* no heading precedes it.
LastHeadingText(walk, i) ==
    LET hs == {j \in 1..(i - 1) : IsHeading(walk[j])}
    IN  IF hs = {} THEN <<>>
        ELSE TextContent(walk[CHOOSE j \in hs : \A k \in hs : k <= j])

\* The numbers of a set in ascending order.
RECURSIVE Ascending(_)
Ascending(S) ==
    IF S = {} THEN <<>>
    ELSE LET m == CHOOSE x \in S : \A y \in S : x <= y
         IN  <<m>> \o Ascending(S \ {m})

\* The link yields a record: it has an href and a first child with data.
Emits(n) == IsLink(n) /\ AttrHref(n.attr, 1) # "" /\ FirstChildData(n) # <<>>

\* C15: every record Parse returns has a non-empty title and a non-empty url,
\* and the records are those of the well-formed links: a link without href,
\* with an empty href, or with a missing, empty or blank title yields none.
C15_RecordsHaveTitleAndURL ==
    parsed.done =>
        /\ \A i \in 1..Len(parsed.bookmarks) :
              parsed.bookmarks[i].Title # <<>> /\ parsed.bookmarks[i].URL # ""
        /\ Len(parsed.bookmarks) = Cardinality({i \in 1..Len(Preorder(doc.root)) : WellFormedLink(Preorder(doc.root)[i])})

\* C16: Parse returns one record per emitted link in depth-first document
\* order, and the folder of each is the text of the last H3 element visited
\* before the link (empty when there is none), whatever the nesting.
C16_FolderIsLastHeading ==
    parsed.done =>
        LET walk == Preorder(doc.root)
            at == Ascending({i \in 1..Len(walk) : Emits(walk[i])})
        IN  /\ Len(parsed.bookmarks) = Len(at)
            /\ \A i \in 1..Len(at) :
                  /\ parsed.bookmarks[i].URL = AttrHref(walk[at[i]].attr, 1)
                  /\ parsed.bookmarks[i].Folder = LastHeadingText(walk, at[i])

\* The links of an exported document with the folder each stands under: ""
\* for a link of the top list, the label of the heading before it for the
\* links of a nested list.
RECURSIVE DocumentLinks(_, _, _)
DocumentLinks(kids, i, folder) ==
    IF i > Len(kids) THEN <<>>
    ELSE (IF IsLink(kids[i])
          THEN <<[Title |-> TextContent(kids[i]), URL |-> AttrHref(kids[i].attr, 1),
                  Folder |-> folder]>>
          ELSE IF kids[i].type = "element" /\ kids[i].data = <<"d", "l">> /\ i > 1
          THEN DocumentLinks(kids[i].kids, 1, TextContent(kids[i - 1]))
          ELSE <<>>)
         \o DocumentLinks(kids, i + 1, folder)

LinksOf(file) == DocumentLinks(file.root.kids, 1, <<>>)

\* How often x occurs in the sequence.
Count(seq, x) == Cardinality({i \in 1..Len(seq) : seq[i] = x})

\* Two sequences hold the same records the same number of times.
SameRecords(s, t) ==
    /\ Len(s) = Len(t)
    /\ \A i \in 1..Len(s) : Count(s, s[i]) = Count(t, s[i])

\* Title, url and folder label of the stored rows with dead=false and
\* redirect=false.
ValidStored ==
    LET rows == SelectSeq(db, LAMBDA r : ~r.is_dead /\ ~r.is_redirect)
    IN  [i \in 1..Len(rows) |->
            [Title |-> rows[i].title, URL |-> rows[i].url, Folder |-> rows[i].folder]]

\* C17: the document ExportValidBookmarks wrote holds exactly the stored rows
\* with dead=false and redirect=false, each under its folder label: no dead or
\* redirecting row appears and none of the others is missing.
C17_ValidExportIsExactlyValidRows ==
    out.valid.written => SameRecords(LinksOf(out.valid), ValidStored)

\* C17 witness: the valid export of a store that holds a row with both flags
\* false and a redirecting row that is not dead.
C17_Witness ==
    /\ out.valid.written
    /\ \E i \in 1..Len(db) : ~db[i].is_dead /\ ~db[i].is_redirect
    /\ \E i \in 1..Len(db) : ~db[i].is_dead /\ db[i].is_redirect

\* C18: parsing the document ExportValidBookmarks wrote returns exactly the
\* exported records, each with the title, url and folder label of its row.
C18_ExportParseRoundTrip ==
    (parsed.done /\ out.valid.written) => SameRecords(parsed.bookmarks, ValidStored)

\* The record r is read before q: ascending by folder label, then by title.
ReadBefore(r, q) ==
    \/ TextLess(r.Folder, q.Folder)
    \/ r.Folder = q.Folder /\ ~TextLess(q.Title, r.Title)

\* C19: every export writes its links in the order of the read: the folder
\* groups ascending by label, the links of a folder ascending by title.
C19_ExportKeepsReadOrder ==
    \A f \in {"valid", "dead", "redirects"} :
        out[f].written =>
            LET links == LinksOf(out[f])
            IN  \A i, j \in 1..Len(links) : i < j => ReadBefore(links[i], links[j])

\* C20: the validation report is written only after the run's transaction has
\* committed; a run that returns without having committed has written none.
C20_ReportOnlyAfterCommit ==
    /\ report.written => tx = "committed"
    /\ (pcMain = "returned" /\ tx # "committed") => (ret # nil /\ ~report.written)

\* C20 witness: a run applied an update, committed and wrote its report.
C20_Witness ==
    report.written /\ report.total > 0 /\ pcMain = "returned" /\ ret = nil

\* The columns of a row other than is_dead, is_redirect and redirect_url.
Unvalidated(row) ==
    [title |-> row.title, url |-> row.url, folder |-> row.folder,
     is_duplicate |-> row.is_duplicate, duplicate_of |-> row.duplicate_of]

\* C21: at every point of a validation run, committed or aborted, the store
\* holds the rows it held when the run started, under the same ids and with
\* the same title, url, folder, is_duplicate and duplicate_of.
C21_ValidationFrame ==
    /\ Len(db) = Len(db0)
    /\ \A i \in 1..Len(db) : Unvalidated(db[i]) = Unvalidated(db0[i])

\* C21 witness: a run committed a change of some row's status.
C21_Witness ==
    tx = "committed" /\ \E i \in 1..Len(db) : db[i] # db0[i]

\* The status columns of row i are the outcome of the run's probe of its URL.
HoldsOutcome(i) ==
    /\ got[i].src = "task"
    /\ db[i].is_dead = got[i].res.dead
    /\ db[i].is_redirect = got[i].res.redirect
    /\ db[i].redirect_url = got[i].res.redirectURL

\* C22: after a committed validation run every stored row's is_dead,
\* is_redirect and redirect_url are the outcome of that run's probe of the
\* row's URL, whatever an earlier run had left there.
C22_CommittedRunOverwritesStatus ==
    tx = "committed" => \A i \in IDs : HoldsOutcome(i)

\* Every result the run received is what the committed store holds for its row.
C22_ReceivedResultsOverwrite ==
    tx = "committed" => \A i \in IDs : got[i].src = "task" => HoldsOutcome(i)

\* C23: SaveBookmarks leaves every row that existed before the call as it
\* was, under the same id, whether the import commits or fails: the duplicate
\* marks it places are on the rows it inserted.
C23_ImportKeepsEarlierRows ==
    imp.called =>
        /\ Len(db) >= Len(imp.before)
        /\ \A i \in 1..Len(imp.before) : db[i] = imp.before[i]

\* C23 witness: a committed import inserted a duplicate of an earlier row,
\* which is still not marked duplicate.
C23_Witness ==
    /\ imp.called /\ imp.err = nil
    /\ \E k \in 1..Len(imp.batch) :
          /\ Stored(k).is_duplicate
          /\ ~db[Stored(k).duplicate_of].is_duplicate

\* No launched task is still to send its result or holds its pool slot, and
\* the producer is not in the middle of its loop.
Settled ==
    /\ \A i \in IDs : task[i] \in {"unlaunched", "finished"}
    /\ pcProd \in {"idle", "done"}

\* C24: in every run, also one the consumer leaves early on an error, every
\* launched task eventually sends its result and returns its slot and the
\* producer eventually finishes: from some point on nothing is outstanding.
\* Runs that a panicking task has ended (C1) are left aside here, so that what
\* is checked is weaker than the claim.
C24_NothingStaysBlocked == <>[](crashed \/ Settled)

\* Title, url and folder label of every stored row.
AllStored ==
    [i \in 1..Len(db) |->
        [Title |-> db[i].title, URL |-> db[i].url, Folder |-> db[i].folder]]

\* C25: once the valid, the dead and the redirect export of a store are
\* written, every stored row appears in exactly one of the three documents:
\* each record is in them, taken together, as often as it is in the store.
C25_ExportsPartitionStore ==
    (out.valid.written /\ out.dead.written /\ out.redirects.written) =>
        \A i \in 1..Len(db) :
            Count(AllStored, AllStored[i]) =
                Count(LinksOf(out.valid), AllStored[i])
                + Count(LinksOf(out.dead), AllStored[i])
                + Count(LinksOf(out.redirects), AllStored[i])

\* Every stored row appears in at least one of the three documents.
C25_ExportsCoverStore ==
    (out.valid.written /\ out.dead.written /\ out.redirects.written) =>
        \A i \in 1..Len(db) :
            Count(AllStored, AllStored[i]) <=
                Count(LinksOf(out.valid), AllStored[i])
                + Count(LinksOf(out.dead), AllStored[i])
                + Count(LinksOf(out.redirects), AllStored[i])

\* C26: after any sequence of committed and failed imports, a stored row with
\* is_duplicate=true has a duplicate_of that is the id of a stored row with
\* the same url and a smaller id, a row with is_duplicate=false has
\* duplicate_of unset, and the first row of each url is not marked duplicate.
C26_DuplicateOfIsEarlierSameURL ==
    \A i \in 1..Len(db) :
        /\ db[i].is_duplicate =>
              /\ db[i].duplicate_of \in 1..(i - 1)
              /\ db[db[i].duplicate_of].url = db[i].url
        /\ ~db[i].is_duplicate => db[i].duplicate_of = NoRow
        /\ (\A j \in 1..(i - 1) : db[j].url # db[i].url) => ~db[i].is_duplicate

\* C26 witness: the store holds a row marked duplicate and rows of another
\* url, and the last import failed.
C26_Witness ==
    /\ imp.called /\ imp.err # nil
    /\ \E i, j \in 1..Len(db) : db[i].is_duplicate /\ db[j].url # db[i].url

====
